---- MODULE Spec2Model ----
(***************************************************************************)
(* State-machine model of the dashboard front end.  The repository holds   *)
(* two variants of the same script:                                        *)
(*   "static"  : src/static/app.js      (authorised fetches, municipality  *)
(*               detail tables, compare chart)                             *)
(*   "unnamed" : src/unnamed/part_000   (no detail tables, sector download *)
(*               button)                                                   *)
(* A behaviour starts with the script loaded on some page, runs the        *)
(* DOMContentLoaded handler, and then interleaves user events (filter      *)
(* changes, search input) with the settling of fetches.                    *)
(*                                                                         *)
(* User-visible Arabic literals of the source are written here as short    *)
(* ASCII message names; each definition names the literal it stands for.   *)
(***************************************************************************)
EXTENDS Bags, FiniteSets, Integers, Sequences, TLC

(***************************************************************************)
(* Bounds of the model.                                                    *)
(***************************************************************************)
\* Fetches that may be in flight together.
MaxInFlight == 3

(***************************************************************************)
(* JavaScript values.                                                      *)
(***************************************************************************)
\* null where the code holds "a string or null" (filter fields, attributes).
Nil == "<null>"

\* JS truthiness of a string-or-null value: null and "" are falsy.
Truthy(s) == s # Nil /\ s # ""

\* A JSON field of a response as JS sees it after resp.json(): a missing
\* field reads as undefined, an explicit null as null.
Undefined == [t |-> "undefined", n |-> 0, s |-> ""]
Null == [t |-> "null", n |-> 0, s |-> ""]
NaN == [t |-> "NaN", n |-> 0, s |-> ""]
Num(k) == [t |-> "number", n |-> k, s |-> ""]
Str(x) == [t |-> "string", n |-> 0, s |-> x]

\* JS truthiness of a value.
TruthyVal(v) ==
    CASE v.t = "number" -> v.n # 0
      [] v.t = "string" -> v.s # ""
      [] OTHER -> FALSE

\* Number(v) for the values a JSON field can hold.
ToNumber(v) ==
    CASE v.t = "number" -> v
      [] v.t = "null" -> Num(0)
      [] v.t = "string" -> IF v.s = "" THEN Num(0) ELSE NaN
      [] OTHER -> NaN

\* Number(v || 0)
NumberOrZero(v) == IF TruthyVal(v) THEN ToNumber(v) ELSE Num(0)

\* v !== null ? Number(v) : null
NumberUnlessNull(v) == IF v # Null THEN ToNumber(v) ELSE Null

\* v > 0 and v < 0 as JS evaluates them (undefined and NaN compare false,
\* null converts to 0).
GreaterThanZero(v) == v.t = "number" /\ v.n > 0
LessThanZero(v) == v.t = "number" /\ v.n < 0

\* String(v) as a template literal interpolates it.
ToText(v) ==
    CASE v.t = "number" -> ToString(v.n)
      [] v.t = "string" -> v.s
      [] OTHER -> v.t

(***************************************************************************)
(* Text.  Cell values and search queries are sequences of one-character    *)
(* strings, so that case folding, trimming and substring search are        *)
(* computed rather than assumed.                                           *)
(***************************************************************************)
\* Decimal digits of a natural number, as Number.prototype.toString gives.
DigitChar(d) == <<"0", "1", "2", "3", "4", "5", "6", "7", "8", "9">>[d + 1]

RECURSIVE NatChars(_)
NatChars(n) ==
    IF n < 10 THEN <<DigitChar(n)>>
    ELSE NatChars(n \div 10) \o <<DigitChar(n % 10)>>

IntChars(n) == IF n < 0 THEN <<"-">> \o NatChars(-n) ELSE NatChars(n)

\* A cell value of a TableRow: null, a number, or a string of characters.
CNull == [t |-> "null", n |-> 0, c |-> <<>>]
CUndefined == [t |-> "undefined", n |-> 0, c |-> <<>>]
CNaN == [t |-> "NaN", n |-> 0, c |-> <<>>]
CNum(k) == [t |-> "number", n |-> k, c |-> <<>>]
CStr(chars) == [t |-> "string", n |-> 0, c |-> chars]

\* String.prototype.toLowerCase on the characters of the model's alphabet.
ToLowerCase(chars) ==
    [i \in 1..Len(chars) |->
        CASE chars[i] = "A" -> "a"
          [] chars[i] = "B" -> "b"
          [] OTHER -> chars[i]]

\* String.prototype.trim: white space dropped at both ends only.
RECURSIVE TrimStart(_)
TrimStart(chars) ==
    IF chars # <<>> /\ Head(chars) = " " THEN TrimStart(Tail(chars))
    ELSE chars

RECURSIVE TrimEnd(_)
TrimEnd(chars) ==
    IF chars # <<>> /\ chars[Len(chars)] = " "
    THEN TrimEnd(SubSeq(chars, 1, Len(chars) - 1))
    ELSE chars

Trim(chars) == TrimEnd(TrimStart(chars))

\* String.prototype.includes
Includes(text, q) ==
    \E i \in 0..(Len(text) - Len(q)) : SubSeq(text, i + 1, i + Len(q)) = q

\* Concatenation of a sequence of character strings.
RECURSIVE Concat(_)
Concat(ss) == IF ss = <<>> THEN <<>> ELSE Head(ss) \o Concat(Tail(ss))

(***************************************************************************)
(* Objects parsed from JSON.  A row object is the sequence of its          *)
(* <<key, value>> properties in property order; keys are column names.     *)
(* Column names are taken to be neither array-index strings ("0", "7")     *)
(* nor names inherited from Object.prototype, so that property order is    *)
(* insertion order and `c in row` is an own-property test.                 *)
(***************************************************************************)
Prop(k, v) == [k |-> k, v |-> v]

\* Object.keys(row)
ObjectKeys(row) == [i \in 1..Len(row) |-> row[i].k]

\* c in row
HasKey(row, c) == \E i \in 1..Len(row) : row[i].k = c

\* row[c]: undefined for a key the row does not hold
Get(row, c) ==
    IF HasKey(row, c)
    THEN row[CHOOSE i \in 1..Len(row) : row[i].k = c].v
    ELSE CUndefined

\* { ...row, [c]: v }: an existing key keeps its place, a new one goes last
SpreadSet(row, c, v) ==
    IF HasKey(row, c)
    THEN [i \in 1..Len(row) |-> IF row[i].k = c THEN Prop(c, v) ELSE row[i]]
    ELSE Append(row, Prop(c, v))

\* preferredOrder.filter((c) => c in first)
RECURSIVE FilterPresent(_, _)
FilterPresent(order, first) ==
    IF order = <<>> THEN <<>>
    ELSE IF HasKey(first, Head(order))
         THEN <<Head(order)>> \o FilterPresent(Tail(order), first)
         ELSE FilterPresent(Tail(order), first)

(***************************************************************************)
(* Messages.  Each name stands for one literal of the source.              *)
(***************************************************************************)
\* status line, loadTotals
MsgLoading == "loading-data"
MsgNoData == "no-data-available"
MsgConnError == "server-connection-error"
\* delta slots, static variant
MsgNoPriorRun == "no-prior-run-for"
MsgComparedPrev == "compared-to-previous-run"
MsgNoChange == "no-change-compared-to-previous-run"
\* delta slots, unnamed variant
MsgNoPrevDay == "no-previous-day"
MsgSinceYesterday == "since-yesterday"
MsgNoChangeYesterday == "no-change-since-yesterday"
\* labels handed to updateDelta
LabelNotVisited == "not-visited"
LabelVisited == "visited"
LabelTotal == "total-visits"
\* municipality detail containers
MsgChooseMunicipality == "choose-a-municipality"
MsgDetailsLoading == "loading-municipality-details"
MsgDetailsFailed == "could-not-load-municipality-details"
MsgDetailsConnError == "connection-error"
TitleSummary == "visits-summary-by-category"
TitleRaw == "visits-and-their-states"
\* the "all municipalities" option of the municipality select
AllOption == ""

\* Column names used by loadMunicipalityDetails.
ColCategory == "category"
ColTotalLicenses == "total_licenses"
ColVisited == "visited"
ColNotVisited == "not_visited"
ColPct == "pct"

summaryOrder == <<ColCategory, ColTotalLicenses, ColVisited, ColNotVisited, ColPct>>

rawOrder ==
    << "visit_no", "amana", "municipality", "district", "inspector",
       "assigned_at", "assigned_date", "assigned_time", "visit_start",
       "visit_end", "visit_duration", "control_type", "risk_level",
       "compliance", "report_no", "visit_state", "visit_type", "entity_no",
       "entity_name", "violation_value", "is_warning", "clause_no",
       "license_no", "facility_name", "stage", "non_compliant_items",
       "department", "license_id_str", "cases", "MUNICIPALITY_EN",
       ColCategory >>

(***************************************************************************)
(* Table renderer.                                                         *)
(***************************************************************************)
\* An array argument that may be missing.
NoArray == [t |-> "undefined", items |-> <<>>]
Arr(items) == [t |-> "array", items |-> items]

\* v || []
OrEmptyArray(a) == IF a.t = "array" THEN a ELSE Arr(<<>>)

\* `${val === null || val === undefined ? "" : val}`
CellText(v) ==
    CASE v.t \in {"null", "undefined"} -> <<>>
      [] v.t = "number" -> IntChars(v.n)
      [] v.t = "NaN" -> <<"N", "a", "N">>
      [] OTHER -> v.c

\* The markup of the "no data" placeholder: a div, no table.
TableEmpty == [kind |-> "empty", title |-> Nil, head |-> <<>>, body |-> <<>>]

\* Mutant of TableColumns: the first row's keys, whatever the preferred order.
TableColumnsKeysOnly(first, preferredOrder) == ObjectKeys(first)

\* The column set buildTableHtml fixes from the first row.
TableColumns(first, preferredOrder) ==
    LET cols == IF Len(preferredOrder) > 0
                THEN FilterPresent(preferredOrder, first)
                ELSE <<>>
    IN IF Len(cols) = 0 THEN ObjectKeys(first) ELSE cols

\* buildTableHtml: the markup as the tree it parses to (a title div when a
\* title is given, the header cells, the body rows of cell texts).
buildTableHtml(rows, preferredOrder, title) ==
    IF rows.t # "array" \/ Len(rows.items) = 0 THEN TableEmpty
    ELSE LET cols == TableColumns(rows.items[1], preferredOrder)
         IN [kind |-> "table",
             title |-> IF Truthy(title) THEN title ELSE Nil,
             head |-> cols,
             body |-> [r \in 1..Len(rows.items) |->
                        [j \in 1..Len(cols) |->
                            CellText(Get(rows.items[r], cols[j]))]]]

\* row.textContent of a body row: its cells' texts, one after the other.
RowText(cells) == Concat(cells)

\* Mutant of SearchDisplay: the row's text is compared as it is written.
SearchDisplayCaseSensitive(body, value) ==
    LET q == ToLowerCase(Trim(value))
    IN [r \in 1..Len(body) |->
          IF q = <<>> THEN ""
          ELSE IF Includes(RowText(body[r]), q) THEN ""
          ELSE "none"]

\* The input handler of setupSearchForContainer: the display of every body
\* row after the user typed `value`.
SearchDisplay(body, value) ==
    LET q == ToLowerCase(Trim(value))
    IN [r \in 1..Len(body) |->
          IF q = <<>> THEN ""
          ELSE IF Includes(ToLowerCase(RowText(body[r])), q) THEN ""
          ELSE "none"]

(***************************************************************************)
(* Delta classifier (updateDelta inside loadTotals).                       *)
(***************************************************************************)
DeltaClasses == {"delta-positive", "delta-negative", "delta-neutral"}

\* The three-way test that decides "no prior run".
NoPrior(v, prevVal, deltaVal, prevDate) ==
    IF v = "static"
    THEN prevVal = Null \/ deltaVal = Null \/ prevDate = Null
    ELSE prevVal = Null \/ deltaVal = Null

\* textContent and the class added, for one delta slot.
DeltaResult(v, prevVal, deltaVal, prevDate, label) ==
    IF NoPrior(v, prevVal, deltaVal, prevDate)
    THEN [text |-> IF v = "static" THEN <<MsgNoPriorRun, label>>
                   ELSE <<MsgNoPrevDay>>,
          class |-> "delta-neutral"]
    ELSE IF GreaterThanZero(deltaVal)
    THEN [text |-> IF v = "static"
                   THEN <<"+" \o ToText(deltaVal), MsgComparedPrev, ToText(prevDate)>>
                   ELSE <<"+" \o ToText(deltaVal), MsgSinceYesterday>>,
          class |-> "delta-positive"]
    ELSE IF LessThanZero(deltaVal)
    THEN [text |-> IF v = "static"
                   THEN <<ToText(deltaVal), MsgComparedPrev, ToText(prevDate)>>
                   ELSE <<ToText(deltaVal), MsgSinceYesterday>>,
          class |-> "delta-negative"]
    ELSE [text |-> IF v = "static" THEN <<MsgNoChange, ToText(prevDate)>>
                   ELSE <<MsgNoChangeYesterday>>,
          class |-> "delta-neutral"]

\* Mutant of RemoveDeltaClasses: the earlier classes are left on the slot.
KeepDeltaClasses(classes) == classes

\* classList.remove(the three delta classes)
RemoveDeltaClasses(classes) == classes \ DeltaClasses

\* Mutant of updateDelta: the text of a slot is written only while the slot
\* is empty.
updateDeltaOnce(v, slot, prevVal, deltaVal, prevDate, label) ==
    LET r == DeltaResult(v, prevVal, deltaVal, prevDate, label)
    IN [text |-> IF slot.text = <<>> THEN r.text ELSE slot.text,
        classes |-> RemoveDeltaClasses(slot.classes) \cup {r.class}]

\* updateDelta on a slot: its text and class list afterwards.
updateDelta(v, slot, prevVal, deltaVal, prevDate, label) ==
    LET r == DeltaResult(v, prevVal, deltaVal, prevDate, label)
    IN [text |-> r.text,
        classes |-> RemoveDeltaClasses(slot.classes) \cup {r.class}]

(***************************************************************************)
(* The page the script runs on, and the backend's answers.                 *)
(***************************************************************************)
Variants == {"static", "unnamed"}

\* A page: the body's data-sector attribute (Nil when absent) and which of
\* the elements the script looks up by id exist.
Page(dataSector, hasFilters, hasStatus, hasCards, hasCanvas, hasDetail, hasDownload) ==
    [dataSector |-> dataSector, hasFilters |-> hasFilters,
     hasStatus |-> hasStatus, hasCards |-> hasCards, hasCanvas |-> hasCanvas,
     hasDetail |-> hasDetail, hasDownload |-> hasDownload]

\* The pages of a variant.  The detail containers belong to the static
\* variant's pages and the download button to the unnamed variant's.
HomePage(v) == Page(Nil, TRUE, TRUE, TRUE, TRUE, v = "static", v = "unnamed")

\* The pages a variant runs on: the home page; a home page with an empty
\* data-sector attribute and neither canvas nor detail containers; the page
\* of sector "abha"; a page with none of the dashboard's elements (the
\* upload page).
Pages(v) ==
    { HomePage(v),
      Page("", TRUE, TRUE, TRUE, FALSE, FALSE, FALSE),
      Page("abha", TRUE, TRUE, TRUE, TRUE, v = "static", v = "unnamed"),
      Page(Nil, FALSE, FALSE, FALSE, FALSE, FALSE, FALSE) }

\* sectorMeta before /api/meta/sectors is parsed, and the backend's answer:
\* the entries of the object in property order.
NullMeta == [isNull |-> TRUE, entries |-> <<>>]

MetaAnswer ==
    [isNull |-> FALSE,
     entries |-> << [key |-> "abha", label |-> "Abha", municipalities |-> <<"m1", "m2">>],
                    [key |-> "khamis", label |-> "", municipalities |-> <<>>] >>]

MetaAnswers == {MetaAnswer}

SectorKeys(meta) == {meta.entries[i].key : i \in 1..Len(meta.entries)}

\* sectorMeta[key]
MetaInfo(meta, key) ==
    meta.entries[CHOOSE i \in 1..Len(meta.entries) : meta.entries[i].key = key]

\* A TotalsResult as parsed from JSON.
Totals(v, n, t, pv, pn, pt, dv, dn, dt, date) ==
    [visited |-> v, not_visited |-> n, total |-> t,
     prev_visited |-> pv, prev_not_visited |-> pn, prev_total |-> pt,
     delta_visited |-> dv, delta_not_visited |-> dn, delta_total |-> dt,
     prev_run_date |-> date]

\* A body of a non-2xx response: an object with an `error` field, an object
\* without one, or a body that is not JSON.
ErrWithMessage == [json |-> TRUE, error |-> Str("backend-error-text")]
ErrBodies ==
    { ErrWithMessage,
      [json |-> TRUE, error |-> Undefined],
      [json |-> FALSE, error |-> Undefined] }

\* err in `const err = await resp.json().catch(() => ({}))`, then
\* `err.error || fallback`
ErrorOr(body, fallback) ==
    IF body.json /\ TruthyVal(body.error) THEN body.error.s ELSE fallback

(***************************************************************************)
(* State.                                                                  *)
(***************************************************************************)
VARIABLES
    variant,        \* which of the two scripts runs
    page,           \* the page it runs on
    booted,         \* DOMContentLoaded has been handled
    visitsChart,    \* let visitsChart: NoChart or the chart instance
    liveCharts,     \* chart instances created and not destroyed
    sectorMeta,     \* let sectorMeta
    currentFilter,  \* const currentFilter = { sector, municipality }
    listening,      \* the two change listeners are installed
    sectorSelect,   \* #sector-filter: its options and value
    muniSelect,     \* #municipality-filter: options, value, disabled
    download,       \* #download-sector-container (unnamed variant)
    status,         \* #status textContent
    cards,          \* the three card values and delta slots
    summaryC,       \* #muni-summary-table content
    rawC,           \* #muni-raw-table content
    inflight,       \* bag of fetches not yet settled
    calls,          \* loader invocations made by the last handler run
    input,          \* arguments of a direct buildTableHtml call
    output          \* the markup that call returned

vars ==
    << variant, page, booted, visitsChart, liveCharts, sectorMeta,
       currentFilter, listening, sectorSelect, muniSelect, download, status,
       cards, summaryC, rawC, inflight, calls, input, output >>

(***************************************************************************)
(* Filter helpers and scope resolution.                                    *)
(***************************************************************************)
\* s || null on body.getAttribute("data-sector")
getBodySector(pg) == IF Truthy(pg.dataSector) THEN pg.dataSector ELSE Nil

getSectorKey(pg, f) ==
    IF Truthy(getBodySector(pg)) THEN getBodySector(pg) ELSE f.sector

getMunicipalityFilter(pg, f) ==
    IF Truthy(getBodySector(pg)) THEN Nil ELSE f.municipality

\* A request URL: the endpoint, the scope segment (or scope query value),
\* its argument, and whether the argument went through encodeURIComponent.
Url(base, seg, arg, enc) == [base |-> base, seg |-> seg, arg |-> arg, enc |-> enc]

\* Mutant of TotalsUrl: the sector filter is tested before the municipality.
TotalsUrlSectorFirst(pg, f) ==
    IF Truthy(getBodySector(pg))
    THEN Url("/api/totals", "sector", getBodySector(pg), FALSE)
    ELSE IF Truthy(getSectorKey(pg, f))
         THEN Url("/api/totals", "sector", getSectorKey(pg, f), FALSE)
    ELSE IF Truthy(getMunicipalityFilter(pg, f))
         THEN Url("/api/totals", "municipality", getMunicipalityFilter(pg, f), TRUE)
    ELSE Url("/api/totals", "", "", FALSE)

\* loadTotals: the url it builds.
TotalsUrl(pg, f) ==
    LET bodySector == getBodySector(pg)
        filterSector == getSectorKey(pg, f)
        filterMuni == getMunicipalityFilter(pg, f)
    IN IF Truthy(bodySector) THEN Url("/api/totals", "sector", bodySector, FALSE)
       ELSE IF Truthy(filterMuni)
            THEN Url("/api/totals", "municipality", filterMuni, TRUE)
       ELSE IF Truthy(filterSector)
            THEN Url("/api/totals", "sector", filterSector, FALSE)
       ELSE Url("/api/totals", "", "", FALSE)

\* loadChart: the url it builds (a query string in the static variant, a
\* path in the unnamed one).
ChartUrl(v, pg, f) ==
    LET bodySector == getBodySector(pg)
        muni == getMunicipalityFilter(pg, f)
        sector == getSectorKey(pg, f)
        base == IF v = "static" THEN "/api/chart-data/compare" ELSE "/api/chart-data"
        none == IF v = "static" THEN "all" ELSE ""
    IN IF Truthy(bodySector) THEN Url(base, "sector", bodySector, v = "static")
       ELSE IF Truthy(muni) THEN Url(base, "municipality", muni, TRUE)
       ELSE IF Truthy(sector) THEN Url(base, "sector", sector, v = "static")
       ELSE Url(base, none, "", FALSE)

\* loadMunicipalityDetails: the url it builds for municipality muni.
DetailsUrl(muni) == Url("/api/municipality", "details", muni, TRUE)

MetaUrl == Url("/api/meta/sectors", "", "", FALSE)

\* The scope a totals or chart URL asks the backend for.
Scope(kind, arg) == [kind |-> kind, arg |-> arg]
AllData == Scope("all", "")
BySector(key) == Scope("sector", key)
ByMunicipality(name) == Scope("municipality", name)

UrlScope(url) ==
    CASE url.seg = "sector" -> BySector(url.arg)
      [] url.seg = "municipality" -> ByMunicipality(url.arg)
      [] OTHER -> AllData

(***************************************************************************)
(* Fetches.                                                                *)
(***************************************************************************)
\* A fetch a loader issued and has not finished with.  A loader's awaits
\* after fetch() (resp.json(), resp.json().catch(...)) write nothing before
\* they resolve, so one action stands for each way the whole chain ends.
Request(loader, url) == [loader |-> loader, url |-> url]

InFlight(r) == BagIn(r, inflight)
Requests == BagToSet(inflight)
Settle(bag, r) == bag (-) SetToBag({r})

\* The model lets a handler run only while its fetches fit the bound.
Room(n) == BagCardinality(inflight) + n <= MaxInFlight

(***************************************************************************)
(* DOM content.                                                            *)
(***************************************************************************)
Slot(text, classes) == [text |-> text, classes |-> classes]

\* A card: its value's textContent and its delta slot.
Card(value, delta) == [value |-> value, delta |-> delta]

\* Cards as the markup leaves them: no value, no delta text, no delta class.
InitialCards ==
    [visited |-> Card("", Slot(<<>>, {})),
     notVisited |-> Card("", Slot(<<>>, {})),
     total |-> Card("", Slot(<<>>, {}))]

\* A detail container's content: empty, one message div, or a title, a
\* search input and a table, with the display of each body row.
Content(kind, cls, text, table, display) ==
    [kind |-> kind, cls |-> cls, text |-> text, table |-> table, display |-> display]

Blank == Content("blank", "", "", TableEmpty, <<>>)
MessageDiv(cls, text) == Content("message", cls, text, TableEmpty, <<>>)
Rendered(title, table) ==
    Content("rendered", "table-title", title, table,
            [r \in 1..Len(table.body) |-> ""])

NoChart ==
    [isNull |-> TRUE, url |-> MetaUrl, labels |-> <<>>, datasets |-> <<>>,
     destroyed |-> FALSE]

\* The select elements as the markup leaves them: the "all" option only,
\* the municipality select disabled.
Option(value, text) == [value |-> value, text |-> text]
InitialSectorSelect == [options |-> <<Option("", "all-sectors")>>, value |-> ""]
InitialMuniSelect == [options |-> <<AllOption>>, value |-> AllOption, disabled |-> TRUE]

HiddenDownload == [shown |-> FALSE, label |-> "", sector |-> Nil]

NullFilter == [sector |-> Nil, municipality |-> Nil]

\* No direct call of buildTableHtml is being looked at.
TableInput(rows, order, title) == [rows |-> rows, order |-> order, title |-> title]
NoInput == TableInput(NoArray, <<>>, Nil)
NoOutput == [done |-> FALSE, html |-> TableEmpty]

Init ==
    /\ variant \in Variants
    /\ page \in Pages(variant)
    /\ booted = FALSE
    /\ visitsChart = NoChart
    /\ liveCharts = 0
    /\ sectorMeta = NullMeta
    /\ currentFilter = NullFilter
    /\ listening = FALSE
    /\ sectorSelect = InitialSectorSelect
    /\ muniSelect = InitialMuniSelect
    /\ download = HiddenDownload
    /\ status = ""
    /\ cards = InitialCards
    /\ summaryC = Blank
    /\ rawC = Blank
    /\ inflight = EmptyBag
    /\ calls = <<>>
    /\ input = NoInput
    /\ output = NoOutput

(***************************************************************************)
(* The synchronous part of each loader: what a call does before its first  *)
(* await.  f is the value of currentFilter the call reads.                 *)
(***************************************************************************)
\* loadTotals: the status line it writes and the fetch it issues.
TotalsCallStatus == IF page.hasStatus THEN MsgLoading ELSE status

TotalsFetches(f) == SetToBag({Request("totals", TotalsUrl(page, f))})

\* loadChart: nothing without the canvas.
ChartFetches(f) ==
    IF page.hasCanvas
    THEN SetToBag({Request("chart", ChartUrl(variant, page, f))})
    ELSE EmptyBag

\* loadMunicipalityDetails (static variant): the two containers after the
\* call and the fetch it issues, if any.
DetailsCall(f) ==
    IF variant # "static" \/ ~page.hasDetail
    THEN [summary |-> summaryC, raw |-> rawC, fetches |-> EmptyBag]
    ELSE IF Truthy(getBodySector(page))
    THEN [summary |-> Blank, raw |-> Blank, fetches |-> EmptyBag]
    ELSE IF ~Truthy(getMunicipalityFilter(page, f))
    THEN [summary |-> MessageDiv("table-empty", MsgChooseMunicipality),
          raw |-> Blank, fetches |-> EmptyBag]
    ELSE [summary |-> MessageDiv("table-loading", MsgDetailsLoading),
          raw |-> Blank,
          fetches |-> SetToBag({Request("details",
                                        DetailsUrl(getMunicipalityFilter(page, f)))})]

\* One entry of `calls`: the loader invoked and the filter value it read.
Call(fn, f) == [fn |-> fn, saw |-> f]

\* The loaders a change handler invokes, in order.
HandlerCalls(f) ==
    IF variant = "static"
    THEN <<Call("loadMunicipalityDetails", f), Call("loadTotals", f), Call("loadChart", f)>>
    ELSE <<Call("loadTotals", f), Call("loadChart", f)>>

\* Mutant of RunLoaders: the loaders run before the listener has updated
\* the filter.
RunLoadersBeforeUpdate(f) ==
    /\ status' = TotalsCallStatus
    /\ summaryC' = DetailsCall(currentFilter).summary
    /\ rawC' = DetailsCall(currentFilter).raw
    /\ inflight' = inflight (+) DetailsCall(currentFilter).fetches
                     (+) TotalsFetches(currentFilter) (+) ChartFetches(currentFilter)
    /\ calls' = HandlerCalls(currentFilter)

\* The tail shared by the change handlers: the loader calls, each reading
\* the filter value f.
RunLoaders(f) ==
    /\ status' = TotalsCallStatus
    /\ summaryC' = DetailsCall(f).summary
    /\ rawC' = DetailsCall(f).raw
    /\ inflight' = inflight (+) DetailsCall(f).fetches (+) TotalsFetches(f) (+) ChartFetches(f)
    /\ calls' = HandlerCalls(f)

\* The fetches RunLoaders(f) issues.
FetchCount(f) ==
    BagCardinality(DetailsCall(f).fetches (+) TotalsFetches(f) (+) ChartFetches(f))

(***************************************************************************)
(* setupHomeFilters and the sector download button.                        *)
(***************************************************************************)
\* setupHomeFilters gets as far as its fetch on a page without a bound
\* sector that holds both selects.
MetaFetches ==
    IF ~Truthy(getBodySector(page)) /\ page.hasFilters
    THEN SetToBag({Request("meta", MetaUrl)})
    ELSE EmptyBag

\* The options appended to #sector-filter, in the order of Object.entries,
\* each with the text info.label || key.
SectorOptions(meta) ==
    [i \in 1..Len(meta.entries) |->
        Option(meta.entries[i].key,
               IF Truthy(meta.entries[i].label) THEN meta.entries[i].label
               ELSE meta.entries[i].key)]

\* updateSectorDownloadButton (unnamed variant), reading filter f and
\* metadata meta.
updateSectorDownloadButton(f, meta) ==
    IF variant # "unnamed" \/ ~page.hasDownload THEN download
    ELSE IF Truthy(getBodySector(page)) THEN [download EXCEPT !.shown = FALSE]
    ELSE IF ~Truthy(f.sector) THEN [download EXCEPT !.shown = FALSE]
    ELSE [shown |-> TRUE,
          label |-> IF ~meta.isNull /\ f.sector \in SectorKeys(meta)
                       /\ Truthy(MetaInfo(meta, f.sector).label)
                    THEN MetaInfo(meta, f.sector).label
                    ELSE f.sector,
          sector |-> f.sector]

(***************************************************************************)
(* DOMContentLoaded                                                        *)
(***************************************************************************)
\* setupHomeFilters(); loadTotals(); loadChart(); and, in the static
\* variant, loadMunicipalityDetails().
BootCalls ==
    IF variant = "static"
    THEN <<Call("loadTotals", currentFilter), Call("loadChart", currentFilter),
           Call("loadMunicipalityDetails", currentFilter)>>
    ELSE <<Call("loadTotals", currentFilter), Call("loadChart", currentFilter)>>

DOMContentLoaded ==
    /\ ~booted
    /\ booted' = TRUE
    /\ status' = TotalsCallStatus
    /\ summaryC' = DetailsCall(currentFilter).summary
    /\ rawC' = DetailsCall(currentFilter).raw
    /\ inflight' = inflight (+) MetaFetches (+) TotalsFetches(currentFilter)
                     (+) ChartFetches(currentFilter)
                     (+) DetailsCall(currentFilter).fetches
    /\ calls' = BootCalls
    /\ UNCHANGED << input, output, variant, page, visitsChart, liveCharts, sectorMeta,
                    currentFilter, listening, sectorSelect, muniSelect,
                    download, cards >>

(***************************************************************************)
(* /api/meta/sectors settles.                                              *)
(***************************************************************************)
MetaRequest == Request("meta", MetaUrl)

UnchangedByMetaFailure ==
    UNCHANGED << input, output, variant, page, booted, visitsChart, liveCharts, sectorMeta,
                 currentFilter, listening, sectorSelect, muniSelect, download,
                 status, cards, summaryC, rawC, calls >>

\* fetch rejects: caught, console.error, no listener is installed.
MetaRejected ==
    /\ InFlight(MetaRequest)
    /\ inflight' = Settle(inflight, MetaRequest)
    /\ UnchangedByMetaFailure

\* !resp.ok: throw new Error("failed meta"), caught the same way.
MetaHttpError ==
    /\ InFlight(MetaRequest)
    /\ inflight' = Settle(inflight, MetaRequest)
    /\ UnchangedByMetaFailure

\* resp.ok, and resp.json() rejects: caught the same way.
MetaParseFailed ==
    /\ InFlight(MetaRequest)
    /\ inflight' = Settle(inflight, MetaRequest)
    /\ UnchangedByMetaFailure

\* resp.ok, and resp.json() resolves: sectorMeta is stored, the sector options are
\* appended and both change listeners are installed.
MetaParsed(meta) ==
    /\ InFlight(MetaRequest)
    /\ inflight' = Settle(inflight, MetaRequest)
    /\ sectorMeta' = meta
    /\ sectorSelect' = [sectorSelect EXCEPT !.options = @ \o SectorOptions(meta)]
    /\ listening' = TRUE
    /\ download' = updateSectorDownloadButton(currentFilter, meta)
    /\ UNCHANGED << input, output, variant, page, booted, visitsChart, liveCharts,
                    currentFilter, muniSelect, status, cards, summaryC, rawC,
                    calls >>

(***************************************************************************)
(* The change listeners.                                                   *)
(***************************************************************************)
OptionValues(options) == {options[i].value : i \in 1..Len(options)}

\* Mutant of SectorChangeFilter: the municipality is kept across a change
\* of sector.
SectorChangeKeepsMunicipality(val) ==
    IF ~Truthy(val) THEN [sector |-> Nil, municipality |-> Nil]
    ELSE [sector |-> val, municipality |-> currentFilter.municipality]

\* currentFilter after the sector listener ran for value val.
SectorChangeFilter(val) ==
    IF ~Truthy(val) THEN [sector |-> Nil, municipality |-> Nil]
    ELSE [sector |-> val, municipality |-> Nil]

\* Mutant of MuniOptionsFor: the options are appended without the reset.
MuniOptionsAppended(val, meta) ==
    IF ~Truthy(val) THEN <<AllOption>>
    ELSE IF val \in SectorKeys(meta)
    THEN muniSelect.options \o MetaInfo(meta, val).municipalities
    ELSE muniSelect.options

\* The municipality options the sector listener leaves: innerHTML is reset
\* to the "all" option, then one option per municipality of the sector.
MuniOptionsFor(val, meta) ==
    IF ~Truthy(val) THEN <<AllOption>>
    ELSE IF val \in SectorKeys(meta)
    THEN <<AllOption>> \o MetaInfo(meta, val).municipalities
    ELSE <<AllOption>>

\* change on #sector-filter, the user having picked option val
SectorChange(val) ==
    /\ listening
    /\ val \in OptionValues(sectorSelect.options)
    /\ Room(FetchCount(SectorChangeFilter(val)))
    /\ sectorSelect' = [sectorSelect EXCEPT !.value = val]
    /\ currentFilter' = SectorChangeFilter(val)
    /\ muniSelect' = [options |-> MuniOptionsFor(val, sectorMeta),
                      value |-> AllOption,
                      disabled |-> ~Truthy(val)]
    /\ download' = updateSectorDownloadButton(SectorChangeFilter(val), sectorMeta)
    /\ RunLoaders(SectorChangeFilter(val))
    /\ UNCHANGED << input, output, variant, page, booted, visitsChart, liveCharts, sectorMeta,
                    listening, cards >>

\* currentFilter after the municipality listener ran for value val.
MuniChangeFilter(f, val) ==
    [f EXCEPT !.municipality = IF Truthy(val) THEN val ELSE Nil]

\* change on #municipality-filter, the user having picked option val; a
\* disabled select takes no input
MuniChange(val) ==
    /\ listening
    /\ ~muniSelect.disabled
    /\ val \in {muniSelect.options[i] : i \in 1..Len(muniSelect.options)}
    /\ Room(FetchCount(MuniChangeFilter(currentFilter, val)))
    /\ muniSelect' = [muniSelect EXCEPT !.value = val]
    /\ currentFilter' = MuniChangeFilter(currentFilter, val)
    /\ RunLoaders(MuniChangeFilter(currentFilter, val))
    /\ UNCHANGED << input, output, variant, page, booted, visitsChart, liveCharts, sectorMeta,
                    listening, sectorSelect, download, cards >>

(***************************************************************************)
(* A /api/totals fetch settles.                                            *)
(***************************************************************************)
IsTotals(r) == InFlight(r) /\ r.loader = "totals"

UnchangedByTotals ==
    UNCHANGED << input, output, variant, page, booted, visitsChart, liveCharts, sectorMeta,
                 currentFilter, listening, sectorSelect, muniSelect, download,
                 summaryC, rawC, calls >>

SetStatus(text) == IF page.hasStatus THEN text ELSE status

\* fetch rejects (or any later throw): the catch block's message.
TotalsRejected(r) ==
    /\ IsTotals(r)
    /\ inflight' = Settle(inflight, r)
    /\ status' = SetStatus(MsgConnError)
    /\ UNCHANGED cards
    /\ UnchangedByTotals

\* !resp.ok.  The static variant writes its fixed message and returns;
\* the unnamed one awaits err = resp.json().catch(() => ({})) and writes
\* err.error || "no data available".
HttpErrorStatus(v, body) ==
    IF v = "static" THEN MsgNoData ELSE ErrorOr(body, MsgNoData)

\* Mutant of TotalsHttpError: the cards are blanked along with the message.
TotalsHttpErrorClearsCards(r, body) ==
    /\ IsTotals(r)
    /\ inflight' = Settle(inflight, r)
    /\ status' = SetStatus(HttpErrorStatus(variant, body))
    /\ cards' = InitialCards
    /\ UnchangedByTotals

TotalsHttpError(r, body) ==
    /\ IsTotals(r)
    /\ inflight' = Settle(inflight, r)
    /\ status' = SetStatus(HttpErrorStatus(variant, body))
    /\ UNCHANGED cards
    /\ UnchangedByTotals

\* resp.ok, and resp.json() rejects: the catch block's message
TotalsParseFailed(r) ==
    /\ IsTotals(r)
    /\ inflight' = Settle(inflight, r)
    /\ status' = SetStatus(MsgConnError)
    /\ UNCHANGED cards
    /\ UnchangedByTotals

\* The three cards after a parsed TotalsResult is applied to cards c.
CardsAfter(v, c, data) ==
    LET visited == NumberOrZero(data.visited)
        notVisited == NumberOrZero(data.not_visited)
        total == NumberOrZero(data.total)
        prevVisited == NumberUnlessNull(data.prev_visited)
        prevNot == NumberUnlessNull(data.prev_not_visited)
        prevTotal == NumberUnlessNull(data.prev_total)
        \* data.prev_run_date || null in the static variant; the unnamed
        \* one reads no date
        prevDate == IF v = "static" /\ TruthyVal(data.prev_run_date)
                    THEN data.prev_run_date
                    ELSE Null
    IN [notVisited |->
            Card(ToText(notVisited),
                 updateDelta(v, c.notVisited.delta, prevNot,
                             data.delta_not_visited, prevDate, LabelNotVisited)),
        visited |->
            Card(ToText(visited),
                 updateDelta(v, c.visited.delta, prevVisited,
                             data.delta_visited, prevDate, LabelVisited)),
        total |->
            Card(ToText(total),
                 updateDelta(v, c.total.delta, prevTotal,
                             data.delta_total, prevDate, LabelTotal))]

\* Mutant of TotalsParsed: a response is applied only when its url is the
\* one the current filter resolves to.
TotalsParsedIfCurrent(r, data) ==
    /\ IsTotals(r)
    /\ inflight' = Settle(inflight, r)
    /\ cards' = IF page.hasCards /\ r.url = TotalsUrl(page, currentFilter)
                THEN CardsAfter(variant, cards, data)
                ELSE cards
    /\ status' = SetStatus("")
    /\ UnchangedByTotals

\* resp.ok, and resp.json() resolves with data: cards and delta slots are written and
\* the status line cleared.
TotalsParsed(r, data) ==
    /\ IsTotals(r)
    /\ inflight' = Settle(inflight, r)
    /\ cards' = IF page.hasCards THEN CardsAfter(variant, cards, data) ELSE cards
    /\ status' = SetStatus("")
    /\ UnchangedByTotals

(***************************************************************************)
(* A chart fetch settles.                                                  *)
(***************************************************************************)
IsChart(r) == InFlight(r) /\ r.loader = "chart"

UnchangedByChartFailure ==
    UNCHANGED << input, output, variant, page, booted, visitsChart, liveCharts, sectorMeta,
                 currentFilter, listening, sectorSelect, muniSelect, download,
                 status, cards, summaryC, rawC, calls >>

\* fetch rejects: console.error only
ChartRejected(r) ==
    /\ IsChart(r)
    /\ inflight' = Settle(inflight, r)
    /\ UnchangedByChartFailure

\* !resp.ok: return
ChartHttpError(r) ==
    /\ IsChart(r)
    /\ inflight' = Settle(inflight, r)
    /\ UnchangedByChartFailure

\* resp.ok, and resp.json() rejects: console.error only
ChartParseFailed(r) ==
    /\ IsChart(r)
    /\ inflight' = Settle(inflight, r)
    /\ UnchangedByChartFailure

\* The datasets of the chart built from data, by their labels.
ChartDatasets(v, data) ==
    IF v = "static"
    THEN <<"current-visited", "current-not-visited">>
         \o (IF data.has_prev THEN <<"previous-visited", "previous-not-visited">>
             ELSE <<>>)
    ELSE <<"current-day", "previous-day">>

\* new Chart(ctx, ...) for the response to request r
NewChart(v, r, data) ==
    [isNull |-> FALSE, url |-> r.url, labels |-> data.labels,
     datasets |-> ChartDatasets(v, data), destroyed |-> FALSE]

\* Mutant of AfterDestroy: the earlier instance is not destroyed.
NotDestroyed(chart, live) == live

\* if (visitsChart) visitsChart.destroy(): the live instances afterwards.
\* destroy() on an instance already destroyed releases nothing more.
AfterDestroy(chart, live) ==
    IF ~chart.isNull /\ ~chart.destroyed THEN live - 1 ELSE live

\* resp.ok, and resp.json() resolves with data: the old instance is destroyed and a new
\* one created
ChartParsed(r, data) ==
    /\ IsChart(r)
    /\ inflight' = Settle(inflight, r)
    /\ liveCharts' = AfterDestroy(visitsChart, liveCharts) + 1
    /\ visitsChart' = NewChart(variant, r, data)
    /\ UNCHANGED << input, output, variant, page, booted, sectorMeta, currentFilter,
                    listening, sectorSelect, muniSelect, download, status,
                    cards, summaryC, rawC, calls >>

\* A destroyed instance that visitsChart still refers to: it draws nothing,
\* so what it was built from is dropped.
DestroyedChart ==
    [isNull |-> FALSE, url |-> MetaUrl, labels |-> <<>>, datasets |-> <<>>,
     destroyed |-> TRUE]

\* resp.ok, and resp.json() resolves with a body that is no object (null):
\* the static variant has destroyed the old instance when reading
\* data.current_visited throws, and visitsChart keeps referring to the
\* destroyed instance; console.error only.  The unnamed variant reads
\* data.labels before it destroys anything (ChartParseFailed).
ChartThrewAfterDestroy(r) ==
    /\ IsChart(r)
    /\ variant = "static"
    /\ inflight' = Settle(inflight, r)
    /\ liveCharts' = AfterDestroy(visitsChart, liveCharts)
    /\ visitsChart' = IF visitsChart.isNull THEN visitsChart ELSE DestroyedChart
    /\ UNCHANGED << input, output, variant, page, booted, sectorMeta, currentFilter,
                    listening, sectorSelect, muniSelect, download, status,
                    cards, summaryC, rawC, calls >>

(***************************************************************************)
(* A municipality-detail fetch settles (static variant).                   *)
(***************************************************************************)
IsDetails(r) == InFlight(r) /\ r.loader = "details"

UnchangedByDetails ==
    UNCHANGED << input, output, variant, page, booted, visitsChart, liveCharts, sectorMeta,
                 currentFilter, listening, sectorSelect, muniSelect, download,
                 status, cards, calls >>

IsDigit(ch) == ch \in {"0", "1", "2", "3", "4", "5", "6", "7", "8", "9"}
DigitValue(ch) == CHOOSE d \in 0..9 : DigitChar(d) = ch

RECURSIVE ParseNat(_, _)
ParseNat(chars, acc) ==
    IF chars = <<>> THEN acc
    ELSE ParseNat(Tail(chars), 10 * acc + DigitValue(Head(chars)))

\* Number(v ?? 0) for a cell value
NumberOfCell(v) ==
    CASE v.t \in {"null", "undefined"} -> CNum(0)
      [] v.t = "number" -> v
      [] v.t = "NaN" -> CNaN
      [] OTHER ->
           IF Trim(v.c) = <<>> THEN CNum(0)
           ELSE IF \A i \in 1..Len(Trim(v.c)) : IsDigit(Trim(v.c)[i])
                THEN CNum(ParseNat(Trim(v.c), 0))
                ELSE CNaN

\* `${pct.toFixed(1)}%` with pct = total > 0 ? (visited / total) * 100 : 0,
\* for counts that are not negative
PctText(total, visited) ==
    IF total.t = "number" /\ total.n > 0
    THEN IF visited.t = "number"
         THEN LET tenths == (2000 * visited.n + total.n) \div (2 * total.n)
              IN IntChars(tenths \div 10) \o <<".", DigitChar(tenths % 10), "%">>
         ELSE <<"N", "a", "N", "%">>
    ELSE <<"0", ".", "0", "%">>

\* summaryRows.map(...): every row gains (or has overwritten) the pct column
WithPct(row) ==
    SpreadSet(row, ColPct,
              CStr(PctText(NumberOfCell(Get(row, ColTotalLicenses)),
                           NumberOfCell(Get(row, ColVisited)))))

SummaryRows(data) ==
    LET rows == OrEmptyArray(data.summary).items
    IN Arr([i \in 1..Len(rows) |-> WithPct(rows[i])])

\* fetch rejects (or a later throw): the catch block's message, in the
\* summary container
DetailsRejected(r) ==
    /\ IsDetails(r)
    /\ inflight' = Settle(inflight, r)
    /\ summaryC' = MessageDiv("table-error", MsgDetailsConnError)
    /\ UNCHANGED rawC
    /\ UnchangedByDetails

\* !resp.ok: err = await resp.json().catch(() => ({})), then
\* err.error || "could not load" goes into the summary container
DetailsHttpError(r, body) ==
    /\ IsDetails(r)
    /\ inflight' = Settle(inflight, r)
    /\ summaryC' = MessageDiv("table-error", ErrorOr(body, MsgDetailsFailed))
    /\ UNCHANGED rawC
    /\ UnchangedByDetails

\* resp.ok, and resp.json() rejects: the catch block's message
DetailsParseFailed(r) ==
    /\ IsDetails(r)
    /\ inflight' = Settle(inflight, r)
    /\ summaryC' = MessageDiv("table-error", MsgDetailsConnError)
    /\ UNCHANGED rawC
    /\ UnchangedByDetails

\* resp.ok, and resp.json() resolves with data: both tables are built and written, and
\* a search handler is set up for each
DetailsParsed(r, data) ==
    /\ IsDetails(r)
    /\ inflight' = Settle(inflight, r)
    /\ summaryC' = Rendered(TitleSummary, buildTableHtml(SummaryRows(data), summaryOrder, Nil))
    /\ rawC' = Rendered(TitleRaw, buildTableHtml(OrEmptyArray(data.raw), rawOrder, Nil))
    /\ UnchangedByDetails

(***************************************************************************)
(* Table search.                                                           *)
(***************************************************************************)
\* setupSearchForContainer installs its listener only when the container
\* holds the search input and a table with a body.
Searchable(c) == c.kind = "rendered" /\ c.table.kind = "table"

UnchangedBySearch ==
    UNCHANGED << input, output, variant, page, booted, visitsChart, liveCharts, sectorMeta,
                 currentFilter, listening, sectorSelect, muniSelect, download,
                 status, cards, inflight, calls >>

\* input on the summary container's search box
SearchSummary(value) ==
    /\ Searchable(summaryC)
    /\ summaryC' = [summaryC EXCEPT !.display = SearchDisplay(summaryC.table.body, value)]
    /\ UNCHANGED rawC
    /\ UnchangedBySearch

\* input on the raw container's search box
SearchRaw(value) ==
    /\ Searchable(rawC)
    /\ rawC' = [rawC EXCEPT !.display = SearchDisplay(rawC.table.body, value)]
    /\ UNCHANGED summaryC
    /\ UnchangedBySearch

(***************************************************************************)
(* The backend's answers and the user's inputs.                            *)
(***************************************************************************)
\* a run with a prior run (visited up, not visited down, total unchanged),
\* and the first run (previous values, deltas and date all null)
TotalsAnswers ==
    { Totals(Num(2), Num(1), Num(3), Num(1), Num(2), Num(3),
             Num(1), Num(-1), Num(0), Str("2024-01-01")),
      Totals(Num(1), Num(0), Num(1), Null, Null, Null, Null, Null, Null, Null) }

ChartAnswers == {[labels |-> <<"day-1", "day-2">>, has_prev |-> TRUE]}

\* one answer: two summary rows and one raw row
DetailsAnswers ==
    {[summary |->
        Arr(<< <<Prop(ColCategory, CStr(<<"A">>)), Prop(ColTotalLicenses, CNum(2)),
                 Prop(ColVisited, CNum(1))>>,
               <<Prop(ColCategory, CStr(<<"b">>)), Prop(ColTotalLicenses, CNum(0))>> >>),
      raw |->
        Arr(<< <<Prop("municipality", CStr(<<"a", "B">>)), Prop("visit_no", CNum(7))>> >>)]}

\* what the user types into a search box
Queries == {<<>>, <<" ", "B">>}

(***************************************************************************)
(* Next-state relation.                                                    *)
(***************************************************************************)
Next ==
    \/ DOMContentLoaded
    \/ MetaRejected
    \/ MetaHttpError
    \/ MetaParseFailed
    \/ \E meta \in MetaAnswers : MetaParsed(meta)
    \/ \E val \in OptionValues(sectorSelect.options) : SectorChange(val)
    \/ \E i \in 1..Len(muniSelect.options) : MuniChange(muniSelect.options[i])
    \/ \E r \in Requests : TotalsRejected(r)
    \/ \E r \in Requests, body \in ErrBodies : TotalsHttpError(r, body)
    \/ \E r \in Requests : TotalsParseFailed(r)
    \/ \E r \in Requests, data \in TotalsAnswers : TotalsParsed(r, data)
    \/ \E r \in Requests : ChartRejected(r)
    \/ \E r \in Requests : ChartHttpError(r)
    \/ \E r \in Requests : ChartParseFailed(r)
    \/ \E r \in Requests, data \in ChartAnswers : ChartParsed(r, data)
    \/ \E r \in Requests : ChartThrewAfterDestroy(r)
    \/ \E r \in Requests : DetailsRejected(r)
    \/ \E r \in Requests, body \in ErrBodies : DetailsHttpError(r, body)
    \/ \E r \in Requests : DetailsParseFailed(r)
    \/ \E r \in Requests, data \in DetailsAnswers : DetailsParsed(r, data)
    \/ \E q \in Queries : SearchSummary(q)
    \/ \E q \in Queries : SearchRaw(q)

Spec == Init /\ [][Next]_vars

(***************************************************************************)
(* Scope resolution on its own: loadTotals() and loadChart() called        *)
(* directly, from every combination of bound sector and filter values.     *)
(***************************************************************************)
\* loadTotals() up to its fetch
loadTotals ==
    /\ booted
    /\ Room(1)
    /\ status' = TotalsCallStatus
    /\ inflight' = inflight (+) TotalsFetches(currentFilter)
    /\ calls' = <<Call("loadTotals", currentFilter)>>
    /\ UNCHANGED << input, output, variant, page, booted, visitsChart,
                    liveCharts, sectorMeta, currentFilter, listening,
                    sectorSelect, muniSelect, download, cards, summaryC, rawC >>

\* loadChart() up to its fetch
loadChart ==
    /\ booted
    /\ Room(1)
    /\ inflight' = inflight (+) ChartFetches(currentFilter)
    /\ calls' = <<Call("loadChart", currentFilter)>>
    /\ UNCHANGED << input, output, variant, page, booted, visitsChart,
                    liveCharts, sectorMeta, currentFilter, listening,
                    sectorSelect, muniSelect, download, status, cards,
                    summaryC, rawC >>

\* Every data-sector attribute (absent, empty, a sector) with every value
\* of the two filter fields.
InitScope ==
    /\ variant \in Variants
    /\ page \in {Page(b, TRUE, TRUE, TRUE, TRUE, FALSE, FALSE) :
                    b \in {Nil, "", "abha", "khamis"}}
    /\ currentFilter \in [sector : {Nil, "abha", "khamis"},
                           municipality : {Nil, "m1", "m2"}]
    /\ booted = TRUE
    /\ visitsChart = NoChart
    /\ liveCharts = 0
    /\ sectorMeta = MetaAnswer
    /\ listening = FALSE
    /\ sectorSelect = InitialSectorSelect
    /\ muniSelect = InitialMuniSelect
    /\ download = HiddenDownload
    /\ status = ""
    /\ cards = InitialCards
    /\ summaryC = Blank
    /\ rawC = Blank
    /\ inflight = EmptyBag
    /\ calls = <<>>
    /\ input = NoInput
    /\ output = NoOutput

NextScope == loadTotals \/ loadChart

SpecScope == InitScope /\ [][NextScope]_vars

\* The scope resolution of the specification, section 4.1.
ResolveScopeRef(bound, sector, municipality) ==
    CASE bound \notin {Nil, ""} -> BySector(bound)
      [] bound \in {Nil, ""} /\ municipality # Nil -> ByMunicipality(municipality)
      [] bound \in {Nil, ""} /\ municipality = Nil /\ sector # Nil -> BySector(sector)
      [] OTHER -> AllData

\* C1: every totals request and every chart request in flight asks for the
\* scope the reference resolves from the bound sector and the filter: the
\* bound sector whatever the filter holds, else the municipality even when a
\* sector is selected too, else the sector, else all data; so both loaders
\* resolve the same scope.
C1_ScopeResolution ==
    \A r \in Requests :
        r.loader \in {"totals", "chart"} =>
            UrlScope(r.url) = ResolveScopeRef(page.dataSector, currentFilter.sector,
                                              currentFilter.municipality)

\* C1 witness: on an unbound page with a sector and a municipality both
\* selected, a totals and a chart request are in flight, both for the
\* municipality.
C1_Witness ==
    /\ page.dataSector = Nil
    /\ currentFilter = [sector |-> "khamis", municipality |-> "m1"]
    /\ \E r \in Requests : r.loader = "totals" /\ UrlScope(r.url) = ByMunicipality("m1")
    /\ \E r \in Requests : r.loader = "chart" /\ UrlScope(r.url) = ByMunicipality("m1")

(***************************************************************************)
(* Claims about the change listeners.                                      *)
(***************************************************************************)
\* C2: after every change event on the sector select the municipality of
\* the filter is none; for a sector key the filter holds that key, the
\* municipality select is enabled and its options are exactly the "all"
\* option followed by that sector's municipalities in order; for "no sector"
\* the filter's sector is none and the municipality select is disabled with
\* the "all" option only.
C2_SectorChangeResets ==
    [][\A val \in OptionValues(sectorSelect.options) :
          (sectorSelect'.value = val /\ SectorChange(val)) =>
             /\ currentFilter'.municipality = Nil
             /\ IF val \in SectorKeys(sectorMeta)
                THEN /\ currentFilter'.sector = val
                     /\ ~muniSelect'.disabled
                     /\ muniSelect'.options =
                          <<AllOption>> \o MetaInfo(sectorMeta, val).municipalities
                ELSE /\ currentFilter'.sector = Nil
                     /\ muniSelect'.disabled
                     /\ muniSelect'.options = <<AllOption>>]_vars

\* C2 witness: sector "khamis" (no municipalities) is selected while a fetch
\* issued for municipality m1 of the previously selected sector is still in
\* flight, and the municipality select is enabled with the "all" option only.
C2_Witness ==
    /\ sectorSelect.value = "khamis"
    /\ currentFilter = [sector |-> "khamis", municipality |-> Nil]
    /\ muniSelect = [options |-> <<AllOption>>, value |-> AllOption, disabled |-> FALSE]
    /\ \E r \in Requests : r.url.arg = "m1"

\* A step of either change listener.
ScopeChange ==
    \/ \E val \in OptionValues(sectorSelect.options) : SectorChange(val)
    \/ \E i \in 1..Len(muniSelect.options) : MuniChange(muniSelect.options[i])

\* The step completes request r of `loader`.
Completes(r, loader) ==
    r.loader = loader /\ CopiesIn(r, inflight') < CopiesIn(r, inflight)

\* One more fetch of `loader` for `scope` is in flight after the step.
Started(loader, scope) ==
    \E r \in BagToSet(inflight') :
        /\ r.loader = loader
        /\ UrlScope(r.url) = scope
        /\ CopiesIn(r, inflight') = CopiesIn(r, inflight) + 1

\* One more detail fetch for municipality muni is in flight after the step.
StartedDetails(muni) ==
    \E r \in BagToSet(inflight') :
        /\ r.loader = "details"
        /\ r.url.arg = muni
        /\ CopiesIn(r, inflight') = CopiesIn(r, inflight) + 1

\* The step ends the fetch r of a loader without a successful result.
FailureOf(r) ==
    \/ TotalsRejected(r)
    \/ \E body \in ErrBodies : TotalsHttpError(r, body)
    \/ TotalsParseFailed(r)
    \/ ChartRejected(r)
    \/ ChartHttpError(r)
    \/ ChartParseFailed(r)
    \/ DetailsRejected(r)
    \/ \E body \in ErrBodies : DetailsHttpError(r, body)
    \/ DetailsParseFailed(r)

\* C3: every change of the sector or the municipality select invokes the
\* totals loader and the chart loader and, on a page with the detail
\* containers, the detail loader, each reading the filter as the listener
\* left it: a totals fetch for the new scope is started, a chart fetch for
\* it when the canvas exists, and the detail containers show the loading
\* placeholder with a fetch started for the selected municipality (or the
\* "choose a municipality" placeholder when none is selected).  A fetch that
\* fails leaves every other fetch in flight and the other views as they are.
C3_ScopeChangeReloads ==
    /\ [][(listening /\ calls' # calls /\ ScopeChange) =>
            LET f == currentFilter'
                scope == ResolveScopeRef(page.dataSector, f.sector, f.municipality)
            IN /\ \E i \in 1..Len(calls') : calls'[i] = Call("loadTotals", f)
               /\ \E i \in 1..Len(calls') : calls'[i] = Call("loadChart", f)
               /\ Started("totals", scope)
               /\ page.hasCanvas => Started("chart", scope)
               /\ page.hasDetail =>
                    /\ \E i \in 1..Len(calls') :
                          calls'[i] = Call("loadMunicipalityDetails", f)
                    /\ IF f.municipality # Nil
                       THEN /\ StartedDetails(f.municipality)
                            /\ summaryC' = MessageDiv("table-loading", MsgDetailsLoading)
                       ELSE summaryC' = MessageDiv("table-empty", MsgChooseMunicipality)]_vars
    /\ [][\A r \in Requests :
            (CopiesIn(r, inflight') < CopiesIn(r, inflight) /\ FailureOf(r)) =>
               /\ \A q \in Requests \ {r} : CopiesIn(q, inflight') = CopiesIn(q, inflight)
               /\ CopiesIn(r, inflight') = CopiesIn(r, inflight) - 1
               /\ r.loader # "totals" => UNCHANGED << status, cards >>
               /\ r.loader # "chart" => UNCHANGED << visitsChart, liveCharts >>
               /\ r.loader # "details" => UNCHANGED << summaryC, rawC >>]_vars

\* C3 witness: municipality m1 is selected, its totals load has failed, and
\* the chart and the detail tables of that same selection are rendered.
C3_Witness ==
    /\ currentFilter.municipality = "m1"
    /\ status = MsgConnError
    /\ ~visitsChart.isNull /\ UrlScope(visitsChart.url) = ByMunicipality("m1")
    /\ summaryC.kind = "rendered"
    /\ inflight = EmptyBag

(***************************************************************************)
(* The totals loader on its own: loadTotals() called again and again on a  *)
(* home page, the backend answering with every combination of present,     *)
(* null and missing previous value, delta and previous run date.           *)
(***************************************************************************)
\* One answer per combination of a previous value, a delta and a date; the
\* not-visited delta is the visited one negated, so that one answer carries
\* deltas of both signs.
DeltaAnswers ==
    {Totals(Num(3), Num(1), Num(4), pv, pv, pv,
            dv, IF dv.t = "number" THEN Num(0 - dv.n) ELSE dv, dv, date) :
        pv \in {Null, Undefined, Num(0), Num(2)},
        dv \in {Null, Undefined, Num(-2), Num(0), Num(2)},
        date \in {Null, Undefined, Str(""), Str("2024-01-01")}}

InitTotals ==
    /\ variant \in Variants
    /\ page = HomePage(variant)
    /\ booted = TRUE
    /\ visitsChart = NoChart
    /\ liveCharts = 0
    /\ sectorMeta = NullMeta
    /\ currentFilter = NullFilter
    /\ listening = FALSE
    /\ sectorSelect = InitialSectorSelect
    /\ muniSelect = InitialMuniSelect
    /\ download = HiddenDownload
    /\ status = ""
    /\ cards = InitialCards
    /\ summaryC = Blank
    /\ rawC = Blank
    /\ inflight = EmptyBag
    /\ calls = <<>>
    /\ input = NoInput
    /\ output = NoOutput

NextTotals ==
    \/ loadTotals
    \/ \E r \in Requests : TotalsRejected(r)
    \/ \E r \in Requests, body \in ErrBodies : TotalsHttpError(r, body)
    \/ \E r \in Requests : TotalsParseFailed(r)
    \/ \E r \in Requests, data \in DeltaAnswers : TotalsParsed(r, data)

SpecTotals == InitTotals /\ [][NextTotals]_vars

\* The three metrics of a TotalsResult: the card, and the fields of the
\* answer its delta slot is computed from.
Metrics == {"visited", "notVisited", "total"}

PrevField(data, m) ==
    CASE m = "visited" -> data.prev_visited
      [] m = "notVisited" -> data.prev_not_visited
      [] OTHER -> data.prev_total

DeltaField(data, m) ==
    CASE m = "visited" -> data.delta_visited
      [] m = "notVisited" -> data.delta_not_visited
      [] OTHER -> data.delta_total

\* A field is absent when it is null or missing from the response.
Absent(v) == v.t \in {"null", "undefined"}

\* The previous run's date is known when the response carries a date text.
DateKnown(data) == data.prev_run_date.t = "string" /\ data.prev_run_date.s # ""

\* A prior run exists for metric m of answer data.
PriorRun(data, m) ==
    /\ PrevField(data, m).t = "number"
    /\ DeltaField(data, m).t = "number"
    /\ DateKnown(data)

\* The delta slot shows "no prior run": the neutral class and that message.
ShowsNoPriorRun(slot) ==
    /\ slot.classes \cap DeltaClasses = {"delta-neutral"}
    /\ slot.text[1] \in {MsgNoPriorRun, MsgNoPrevDay}

\* C4: after every successful totals response, the delta slot of a metric
\* whose previous value is absent (null or missing), or whose delta is
\* absent, or whose answer carries no previous run date, shows "no prior
\* run" with the neutral class.
C4_NoPriorRunWhenAbsent ==
    [][\A r \in Requests, data \in DeltaAnswers :
          (page.hasCards /\ TotalsParsed(r, data)) =>
             \A m \in Metrics :
                (Absent(PrevField(data, m)) \/ Absent(DeltaField(data, m))
                    \/ ~DateKnown(data))
                   => ShowsNoPriorRun(cards'[m].delta)]_vars

\* The class of the classification by the delta's sign.
SignClass(delta) ==
    IF delta.n > 0 THEN "delta-positive"
    ELSE IF delta.n < 0 THEN "delta-negative"
    ELSE "delta-neutral"

\* The text a slot starts with, by the delta's sign: "+delta", the delta
\* with its minus sign, or one of the "no change" messages.
SignText(delta) ==
    IF delta.n > 0 THEN {"+" \o ToString(delta.n)}
    ELSE IF delta.n < 0 THEN {"-" \o ToString(0 - delta.n)}
    ELSE {MsgNoChange, MsgNoChangeYesterday}

\* C5: after every successful totals response, each delta slot carries
\* exactly one of the three delta classes; for a metric with a prior run
\* (previous value, delta and date present) that class is delta-positive
\* and the text starts with "+delta" exactly when delta > 0, delta-negative
\* and the text starts with the negative delta exactly when delta < 0, and
\* delta-neutral with the "no change" message exactly when delta = 0.
C5_DeltaClassification ==
    [][\A r \in Requests, data \in DeltaAnswers :
          (page.hasCards /\ TotalsParsed(r, data)) =>
             \A m \in Metrics :
                /\ Cardinality(cards'[m].delta.classes \cap DeltaClasses) = 1
                /\ PriorRun(data, m) =>
                     /\ cards'[m].delta.classes \cap DeltaClasses
                          = {SignClass(DeltaField(data, m))}
                     /\ cards'[m].delta.text[1] \in SignText(DeltaField(data, m))]_vars

\* C5 witness: an answer with a prior run has been applied: visited shows
\* an increase of 2, not visited a decrease of 2, each slot with its one
\* class.
C5_Witness ==
    /\ cards.visited.delta.classes = {"delta-positive"}
    /\ cards.visited.delta.text[1] = "+2"
    /\ cards.notVisited.delta.classes = {"delta-negative"}
    /\ cards.notVisited.delta.text[1] = "-2"
    /\ cards.total.delta.classes = {"delta-positive"}
    /\ Len(calls) = 1 /\ inflight = EmptyBag

(***************************************************************************)
(* The table renderer on its own: buildTableHtml called on drawn           *)
(* arguments, its markup put into the summary container behind a search    *)
(* box as loadMunicipalityDetails does, and the search box typed into.     *)
(***************************************************************************)
\* Rows of a drawn row sequence.
MaxRows == 2

\* The row objects, preferred orders, titles and queries drawn from.
TableRowObjects ==
    { <<Prop("a", CNum(1)), Prop("b", CNum(2))>>,
      <<Prop("a", CNum(3))>>,
      <<Prop("b", CNull), Prop("c", CStr(<<"a", "B">>))>>,
      <<Prop("c", CStr(<<"B", " ", "a">>)), Prop("a", CNum(-4))>>,
      <<>> }

TableRowSequences ==
    {NoArray} \cup {Arr(items) : items \in UNION {[1..n -> TableRowObjects] : n \in 0..MaxRows}}

TableInputs ==
    {TableInput(rows, order, title) :
        rows \in TableRowSequences,
        order \in {<<>>, <<"b", "a">>, <<"z">>, <<"c", "z", "a">>},
        title \in {Nil, "", "a-title"}}

TableQueries ==
    {<<>>, <<" ">>, <<"a">>, <<"B">>, <<" ", "B">>, <<"2">>, <<"b", "a">>, <<"b", " ">>}

InitTable ==
    /\ variant = "static"
    /\ page = HomePage("static")
    /\ booted = TRUE
    /\ visitsChart = NoChart
    /\ liveCharts = 0
    /\ sectorMeta = NullMeta
    /\ currentFilter = NullFilter
    /\ listening = FALSE
    /\ sectorSelect = InitialSectorSelect
    /\ muniSelect = InitialMuniSelect
    /\ download = HiddenDownload
    /\ status = ""
    /\ cards = InitialCards
    /\ summaryC = Blank
    /\ rawC = Blank
    /\ inflight = EmptyBag
    /\ calls = <<>>
    /\ input \in TableInputs
    /\ output = NoOutput

\* buildTableHtml(rows, preferredOrder, title) on the drawn arguments; the
\* markup goes into the summary container, and setupSearchForContainer runs.
BuildTable ==
    /\ ~output.done
    /\ output' = [done |-> TRUE,
                  html |-> buildTableHtml(input.rows, input.order, input.title)]
    /\ summaryC' = Rendered(TitleSummary,
                            buildTableHtml(input.rows, input.order, input.title))
    /\ UNCHANGED << input, variant, page, booted, visitsChart, liveCharts,
                    sectorMeta, currentFilter, listening, sectorSelect,
                    muniSelect, download, status, cards, rawC, inflight, calls >>

NextTable ==
    \/ BuildTable
    \/ \E q \in TableQueries : SearchSummary(q)

SpecTable == InitTable /\ [][NextTable]_vars

\* The keys of a row object, as a set.
KeySet(row) == {row[i].k : i \in 1..Len(row)}

\* The column set of the contract: the preferred order filtered to the
\* first row's keys, or that row's keys when nothing is left.
ContractColumns(first, order) ==
    LET kept == SelectSeq(order, LAMBDA c : c \in KeySet(first))
    IN IF kept # <<>> THEN kept ELSE [i \in 1..Len(first) |-> first[i].k]

\* The text of the cell the contract gives row `row` in column c.
ContractCell(row, c) ==
    IF c \notin KeySet(row) THEN <<>>
    ELSE LET v == row[CHOOSE i \in 1..Len(row) : row[i].k = c].v
         IN IF v.t = "null" THEN <<>>
            ELSE IF v.t = "number" THEN IntChars(v.n)
            ELSE v.c

\* C6: the markup buildTableHtml returned is the "no data" placeholder with
\* no table row when the row sequence is missing or empty; otherwise its
\* header is the preferred order filtered to the first row's keys (or that
\* row's keys in insertion order when the filter leaves nothing), it has
\* one body row per input row in input order, and each body row has one
\* cell per header column, empty for a null or missing value, so that no
\* key outside the header is shown.
C6_TableContract ==
    output.done =>
        LET rows == input.rows
            html == output.html
        IN IF rows.t # "array" \/ rows.items = <<>>
           THEN html.kind = "empty" /\ html.body = <<>> /\ html.head = <<>>
           ELSE /\ html.kind = "table"
                /\ html.head = ContractColumns(rows.items[1], input.order)
                /\ Len(html.body) = Len(rows.items)
                /\ \A r \in 1..Len(rows.items) :
                      /\ Len(html.body[r]) = Len(html.head)
                      /\ \A j \in 1..Len(html.head) :
                            html.body[r][j] = ContractCell(rows.items[r], html.head[j])

\* C6 witness: rows [{a:1,b:2},{a:3}] with preferred order [b,a] gave two
\* body rows, the second with an empty b cell.
C6_Witness ==
    /\ output.done
    /\ input.order = <<"b", "a">>
    /\ input.rows = Arr(<< <<Prop("a", CNum(1)), Prop("b", CNum(2))>>,
                           <<Prop("a", CNum(3))>> >>)
    /\ output.html.head = <<"b", "a">>
    /\ output.html.body = << << <<"2">>, <<"1">> >>, << <<>>, <<"3">> >> >>

\* The rows of a container in order, whatever their display.
RowsOf(c) == c.table

\* C7 as stated: after a search input, a row is hidden exactly when the
\* query is not empty and the row's text, case folded, does not contain the
\* case-folded query; the rows and their order are unchanged and no request
\* is issued.
C7_SearchAsStated ==
    [][\A q \in TableQueries :
          SearchSummary(q) =>
             /\ RowsOf(summaryC') = RowsOf(summaryC)
             /\ inflight' = inflight
             /\ \A r \in 1..Len(summaryC.table.body) :
                   (summaryC'.display[r] = "none") <=>
                      (q # <<>> /\ ~Includes(ToLowerCase(RowText(summaryC.table.body[r])),
                                             ToLowerCase(q)))]_vars

\* C7 as amended: the query is the input with the white space at both its
\* ends dropped.  After a search input, a row is hidden exactly when that
\* query is not empty and the row's text, case folded, does not contain the
\* case-folded query; an empty query shows every row whatever was hidden
\* before; the rows and their order are unchanged and no request is issued.
C7_SearchTrimmed ==
    [][\A q \in TableQueries :
          SearchSummary(q) =>
             /\ RowsOf(summaryC') = RowsOf(summaryC)
             /\ inflight' = inflight
             /\ \A r \in 1..Len(summaryC.table.body) :
                   (summaryC'.display[r] = "none") <=>
                      (Trim(q) # <<>>
                         /\ ~Includes(ToLowerCase(RowText(summaryC.table.body[r])),
                                      ToLowerCase(Trim(q))))
             /\ Trim(q) = <<>> =>
                   \A r \in 1..Len(summaryC.table.body) : summaryC'.display[r] = ""]_vars

\* C7 witness: a rendered two-row table with its first row hidden by a
\* query and its second row shown.
C7_Witness ==
    /\ output.done
    /\ Searchable(summaryC)
    /\ Len(summaryC.table.body) = 2
    /\ summaryC.display = <<"none", "">>

(***************************************************************************)
(* Claims about loads that fail.                                           *)
(***************************************************************************)
\* The step ends the totals fetch r with a non-2xx response.
TotalsNonSuccess(r) == \E body \in ErrBodies : TotalsHttpError(r, body)

\* The step ends the detail fetch r with a non-2xx response.
DetailsNonSuccess(r) == \E body \in ErrBodies : DetailsHttpError(r, body)

\* The step ends the chart fetch r without a chart: a rejected fetch, a
\* non-2xx response or a body that does not parse.
ChartFailure(r) == ChartRejected(r) \/ ChartHttpError(r) \/ ChartParseFailed(r)

\* C8 as stated: a non-success response to a totals load leaves the cards
\* as they are, and a non-success response to a detail load leaves the
\* summary and the raw container as they are; only a message on the status
\* line is written.
C8_ContentLeftInPlace ==
    [][\A r \in Requests :
          (CopiesIn(r, inflight') < CopiesIn(r, inflight)) =>
             /\ TotalsNonSuccess(r) => UNCHANGED << cards, summaryC, rawC >>
             /\ DetailsNonSuccess(r) => UNCHANGED << cards, summaryC, rawC >>]_vars

\* C8 as amended: a non-success response to a totals load leaves the cards
\* and the detail containers as they are and writes a message on the status
\* line only.  A detail load replaces the summary container's content by
\* the "loading" placeholder and empties the raw container when it is
\* called; a non-success response to it replaces whatever the summary
\* container then holds by an error message, and leaves the raw container,
\* the cards and the status line as they are.
C8_FailedLoadContent ==
    /\ [][\A r \in Requests :
            (CopiesIn(r, inflight') < CopiesIn(r, inflight)) =>
               /\ TotalsNonSuccess(r) =>
                     /\ UNCHANGED << cards, summaryC, rawC >>
                     /\ page.hasStatus => status' \in {MsgNoData, ErrWithMessage.error.s}
               /\ DetailsNonSuccess(r) =>
                     /\ UNCHANGED << cards, status, rawC >>
                     /\ summaryC'.kind = "message"
                     /\ summaryC'.cls = "table-error"
                     /\ summaryC'.text \in {MsgDetailsFailed, ErrWithMessage.error.s}]_vars
    /\ [][(listening /\ calls' # calls /\ ScopeChange
            /\ \E r \in BagToSet(inflight') :
                  r.loader = "details" /\ CopiesIn(r, inflight') > CopiesIn(r, inflight)) =>
              /\ summaryC' = MessageDiv("table-loading", MsgDetailsLoading)
              /\ rawC' = Blank]_vars

\* C8 witness: the cards show the values of an earlier successful totals
\* load under the "no data" message of a later one that failed, and the
\* summary container shows the error message of a failed detail load.
C8_Witness ==
    /\ cards.total.value # ""
    /\ status = MsgNoData
    /\ summaryC.kind = "message" /\ summaryC.cls = "table-error"
    /\ summaryC.text = MsgDetailsFailed
    /\ currentFilter.municipality = "m1"

\* C9: when the chart load issued for the scope now selected fails, no
\* chart built for another scope is left on the page.
C9_NoChartOfEarlierScope ==
    [][\A r \in Requests :
          (/\ CopiesIn(r, inflight') < CopiesIn(r, inflight)
           /\ UrlScope(r.url) = ResolveScopeRef(page.dataSector, currentFilter.sector,
                                                currentFilter.municipality)
           /\ ChartFailure(r)) =>
             \/ visitsChart'.isNull
             \/ visitsChart'.destroyed
             \/ UrlScope(visitsChart'.url) = UrlScope(r.url)]_vars

\* C10: a totals load that ends in an error writes the status line: the
\* connection-error message when the fetch is rejected, and for a non-2xx
\* response the body's `error` field when it has one and the "no data
\* available" message otherwise.
C10_TotalsErrorMessages ==
    [][\A r \in Requests :
          (page.hasStatus /\ CopiesIn(r, inflight') < CopiesIn(r, inflight)) =>
             /\ TotalsRejected(r) => status' = MsgConnError
             /\ \A body \in ErrBodies :
                   TotalsHttpError(r, body) =>
                      status' = IF body.json /\ body.error.t = "string"
                                THEN body.error.s
                                ELSE MsgNoData]_vars

(***************************************************************************)
(* Claims about loads that overlap.                                        *)
(***************************************************************************)
\* C11: whatever chart loads are in flight and in whatever order they
\* complete, at most one chart instance is live (created and not
\* destroyed), and a live instance is the one visitsChart refers to: the
\* count of live instances is 1 when visitsChart refers to an instance that
\* has not been destroyed, and 0 otherwise.
C11_SingleLiveChart ==
    /\ liveCharts \in {0, 1}
    /\ liveCharts = IF ~visitsChart.isNull /\ ~visitsChart.destroyed THEN 1 ELSE 0

\* C11 witness: a chart has been created and is live while two chart
\* requests for two different scopes are in flight together.
C11_Witness ==
    /\ liveCharts = 1
    /\ ~visitsChart.isNull
    /\ \E r1, r2 \in Requests :
          /\ r1.loader = "chart" /\ r2.loader = "chart"
          /\ UrlScope(r1.url) # UrlScope(r2.url)

\* C13: a successful totals completion leaves the cards (values, delta
\* texts and delta classes) exactly as the same answer leaves the cards of
\* the untouched markup, whatever the cards showed before; so a second
\* completion with the same answer leaves what the first one left, in
\* either order of completion.  And currentFilter changes only in a step of
\* one of the two change listeners: no invocation of a loader and no
\* completion, successful or failed, changes it.
C13_TotalsIdempotent ==
    /\ [][(page.hasCards /\ inflight' # inflight) =>
            \A r \in Requests, data \in TotalsAnswers :
               (Completes(r, "totals") /\ TotalsParsed(r, data)) =>
                  /\ cards' = CardsAfter(variant, InitialCards, data)
                  /\ (cards = CardsAfter(variant, InitialCards, data) => cards' = cards)]_vars
    /\ [][currentFilter' # currentFilter =>
            SectorChange(sectorSelect'.value) \/ MuniChange(muniSelect'.value)]_vars

\* C13 witness: the cards show the answer of a run with a prior run, the
\* status line has been cleared by a completion that came after the latest
\* invocation, and a further totals load, for the scope now selected, is
\* in flight: the loader was invoked at least twice and a second
\* completion is still to come.
C13_Witness ==
    /\ page.hasCards /\ page.hasStatus
    /\ status = ""
    /\ \E data \in TotalsAnswers :
          /\ data.prev_visited # Null
          /\ cards = CardsAfter(variant, InitialCards, data)
    /\ \E r \in Requests :
          /\ r.loader = "totals"
          /\ r.url = TotalsUrl(page, currentFilter)
          /\ currentFilter.sector # Nil

(***************************************************************************)
(* Consistency of the filter state.                                        *)
(***************************************************************************)
\* C14: on a page not bound to a sector, in every reachable state: the
\* municipality of currentFilter is non-null only when its sector is
\* non-null, and is then one of sectorMeta[sector].municipalities; the
\* municipality select is disabled exactly when the sector is null; and
\* currentFilter is (null, null) as long as the sector metadata has not
\* been parsed.  Once the metadata request has settled without a parsed
\* answer, it is never in flight again and sectorMeta stays null, so
\* currentFilter stays (null, null) from then on.
C14_FilterConsistent ==
    /\ [](getBodySector(page) = Nil =>
            /\ currentFilter.municipality # Nil =>
                  /\ currentFilter.sector # Nil
                  /\ currentFilter.sector \in SectorKeys(sectorMeta)
                  /\ \E i \in 1..Len(MetaInfo(sectorMeta, currentFilter.sector).municipalities) :
                        MetaInfo(sectorMeta, currentFilter.sector).municipalities[i]
                           = currentFilter.municipality
            /\ muniSelect.disabled <=> currentFilter.sector = Nil
            /\ (sectorMeta.isNull \/ ~listening) => currentFilter = NullFilter)
    /\ [][(booted /\ sectorMeta.isNull /\ ~InFlight(MetaRequest)) =>
            /\ sectorMeta'.isNull
            /\ CopiesIn(MetaRequest, inflight') = 0
            /\ currentFilter' = NullFilter]_vars

\* C14 witness: on the home page, after a totals load has completed,
\* municipality m2 of sector "abha" is selected and the municipality select
\* is enabled.
C14_Witness ==
    /\ getBodySector(page) = Nil
    /\ currentFilter = [sector |-> "abha", municipality |-> "m2"]
    /\ ~muniSelect.disabled
    /\ cards.total.value # ""

(***************************************************************************)
(* Overlapping loads against a backend whose answer is a function of the   *)
(* url: every scope has its own totals, chart labels and detail rows, so   *)
(* what the page shows tells which response was applied.  Requests fail    *)
(* only by a non-2xx response.                                             *)
(***************************************************************************)
\* The parsed 2xx body the backend returns for request r.
BackendAnswer(r) ==
    LET k == CASE r.url.arg = "abha" -> 1
               [] r.url.arg = "khamis" -> 2
               [] r.url.arg = "m1" -> 3
               [] r.url.arg = "m2" -> 4
               [] OTHER -> 0
    IN CASE r.loader = "totals" ->
              Totals(Num(k + 1), Num(1), Num(k + 2), Num(1), Num(2), Num(3),
                     Num(k), Num(-1), Num(k - 1), Str("2024-01-01"))
         [] r.loader = "chart" ->
              [labels |-> <<r.url.seg, r.url.arg>>, has_prev |-> TRUE]
         [] OTHER ->
              [summary |->
                 Arr(<< <<Prop(ColCategory, CStr(<<"A">>)),
                          Prop(ColTotalLicenses, CNum(k)),
                          Prop(ColVisited, CNum(1))>> >>),
               raw |->
                 Arr(<< <<Prop("municipality",
                               CStr(IF k = 3 THEN <<"m", "1">> ELSE <<"m", "2">>)),
                          Prop("visit_no", CNum(k))>> >>)]

NextStale ==
    \/ DOMContentLoaded
    \/ \E meta \in MetaAnswers : MetaParsed(meta)
    \/ \E val \in OptionValues(sectorSelect.options) : SectorChange(val)
    \/ \E i \in 1..Len(muniSelect.options) : MuniChange(muniSelect.options[i])
    \/ \E r \in Requests : TotalsParsed(r, BackendAnswer(r))
    \/ \E r \in Requests, body \in ErrBodies : TotalsHttpError(r, body)
    \/ \E r \in Requests : ChartParsed(r, BackendAnswer(r))
    \/ \E r \in Requests : ChartHttpError(r)
    \/ \E r \in Requests : DetailsParsed(r, BackendAnswer(r))
    \/ \E r \in Requests, body \in ErrBodies : DetailsHttpError(r, body)

SpecStale == Init /\ [][NextStale]_vars

\* The two detail containers as the tables of r's answer.
TablesOf(r) ==
    << Rendered(TitleSummary,
                buildTableHtml(SummaryRows(BackendAnswer(r)), summaryOrder, Nil)),
       Rendered(TitleRaw,
                buildTableHtml(OrEmptyArray(BackendAnswer(r).raw), rawOrder, Nil)) >>

====
